---- MODULE Spec2Model ----
(***************************************************************************)
(* Model of MPMSolidBase<Scalar,Dim> (Physika_Dynamics/MPM/                *)
(* mpm_solid_base.cpp): the particle container of the MPM solid driver.    *)
(*                                                                         *)
(* A SolidParticle* is modelled by what it points to: NULL, an object the  *)
(* container owns (the pointer value carries the object's fields, since    *)
(* every clone has exactly one owner), an object of the caller (by its     *)
(* name), or a released object (Dangling).  Released memory is never       *)
(* handed out again.  C++ indices are 0-based; the sequences below are     *)
(* 1-based, so index idx of the code is position idx + 1 here.             *)
(***************************************************************************)
EXTENDS Integers, Sequences, FiniteSets, TLC

\* ---------------------------------------------------------------- bounds
MaxParticles == 3      \* largest container size explored
MaxBatch     == 2      \* longest index vector given to addBCParticles

CallerIds == {1, 2}                       \* particles owned by the caller
Dims      == {2, 3}                       \* the explicit instantiations
Radii     == {1, 2, 3}                    \* kernel support radii
Volumes   == {1, 2}                       \* particle volumes
Indices   == 0 .. MaxParticles            \* includes an out-of-range index

\* ------------------------------------------------------------- pointers
Ptr(kind, target, vol, vel) ==
    [kind |-> kind, target |-> target, volume |-> vol, velocity |-> vel]

NULL     == Ptr("null", 0, 0, 0)
Dangling == Ptr("dangling", 0, 0, 0)

\* ---------------------------------------------------------- return values
Void           == [kind |-> "void"]
Scalar(x)      == [kind |-> "scalar", value |-> x]
Reference(ptr) == [kind |-> "reference", to |-> ptr]     \* *ptr

VARIABLES
    particles_,                          \* vector<SolidParticle*>
    is_bc_particle_,                     \* vector<unsigned char>
    particle_initial_volume_,            \* vector<Scalar>
    particle_grid_weight_and_gradient_,  \* vector<vector<pair>>
    particle_grid_pair_num_,             \* vector<unsigned int>
    supportRadius,                       \* weight_function_->supportRadius()
    Dim,                                 \* template parameter
    caller,                              \* the caller's particles
    double_free,                         \* a released object was released again
    status,                              \* "running", "exited", "aborted", "destroyed"
    lastOp,                              \* name of the last call made
    returned,                            \* what the last call returned
    step_method_                         \* MPMBase::step_method_

vars == <<particles_, is_bc_particle_, particle_initial_volume_,
          particle_grid_weight_and_gradient_, particle_grid_pair_num_,
          supportRadius, Dim, caller, double_free, status, lastOp,
          returned, step_method_>>

container == <<particles_, is_bc_particle_, particle_initial_volume_,
               particle_grid_weight_and_gradient_, particle_grid_pair_num_>>

\* ------------------------------------------------------ vector operations
\* a variant that moves the last element into the hole (swap and pop)
EraseSwapPop(s, idx) ==
    [j \in 1 .. (Len(s) - 1) |-> IF j = idx + 1 THEN s[Len(s)] ELSE s[j]]

\* std::vector::erase(begin() + idx)
Erase(s, idx) ==
    [j \in 1 .. (Len(s) - 1) |-> IF j <= idx THEN s[j] ELSE s[j + 1]]

\* std::vector::resize(n, val): keeps the first min(n, size) elements
Resize(s, n, val) ==
    [j \in 1 .. n |-> IF j <= Len(s) THEN s[j] ELSE val]

\* std::vector<T>(n): n value-initialised entries
Filled(n, val) == [j \in 1 .. n |-> val]

particleNum == Len(particles_)

\* ----------------------------------------------------------- the objects
\* *ptr, for a pointer to a live object
Deref(ptr) ==
    IF ptr.kind = "caller"
    THEN [volume |-> caller[ptr.target].volume,
          velocity |-> caller[ptr.target].velocity]
    ELSE [volume |-> ptr.volume, velocity |-> ptr.velocity]

Live(ptr) == ptr.kind \in {"own", "caller"}

\* a variant that keeps the caller's pointer instead of cloning
CloneAliases(p) == Ptr("caller", p, 0, 0)

\* particle.clone() of the caller's particle p: a new object, a copy of p
Clone(p) == Ptr("own", 0, caller[p].volume, caller[p].velocity)

\* what a pointer is worth after delete on it
Deleted(ptr) == IF ptr = NULL THEN NULL ELSE Dangling

\* delete ptr releases a released object
DoubleFree(ptr) == ptr = Dangling

\* max_num = (2 * supportRadius + 1)^Dim, by the loop of the code
RECURSIVE MaxNumLoop(_, _, _, _)
MaxNumLoop(i, d, r, max_num) ==
    IF i < d THEN MaxNumLoop(i + 1, d, r, max_num * (r * 2 + 1))
    ELSE max_num

\* a variant that forgets the centre node: (2 * supportRadius)^Dim
RECURSIVE MaxNumNoCentreLoop(_, _, _, _)
MaxNumNoCentreLoop(i, d, r, max_num) ==
    IF i < d THEN MaxNumNoCentreLoop(i + 1, d, r, max_num * (r * 2))
    ELSE max_num

MaxNumNoCentre(d, r) == MaxNumNoCentreLoop(0, d, r, 1)

MaxNum(d, r) == MaxNumLoop(0, d, r, 1)

\* ------------------------------------------------------------------ Init
\* The state after MPMSolidBase(): an empty container and a kernel; the
\* caller holds two particles of its own.
Init ==
    /\ particles_ = <<>>
    /\ is_bc_particle_ = <<>>
    /\ particle_initial_volume_ = <<>>
    /\ particle_grid_weight_and_gradient_ = <<>>
    /\ particle_grid_pair_num_ = <<>>
    /\ supportRadius \in Radii
    /\ Dim \in Dims
    /\ caller = [p \in CallerIds |->
                   IF p = 1 THEN [volume |-> 1, velocity |-> 0]
                   ELSE [volume |-> 2, velocity |-> -2]]
    /\ double_free = FALSE
    /\ status = "running"
    /\ lastOp = "MPMSolidBase"
    /\ returned = Void
    /\ step_method_ = "MPMSolidStepMethodUSL"

\* MPMBase(...) leaves step_method_ without a strategy
NoStepMethod == "NULL"

\* the strategies setStepMethod<T>() can install
StepMethods == {"MPMSolidStepMethodUSL", "MPMStepMethod subclass"}

\* The state after MPMSolidBase(start_frame, end_frame, frame_rate, max_dt,
\* write_to_file): the frame parameters go to the driver base.
InitFrames ==
    /\ particles_ = <<>>
    /\ is_bc_particle_ = <<>>
    /\ particle_initial_volume_ = <<>>
    /\ particle_grid_weight_and_gradient_ = <<>>
    /\ particle_grid_pair_num_ = <<>>
    /\ supportRadius \in Radii
    /\ Dim \in Dims
    /\ caller = [p \in CallerIds |->
                   IF p = 1 THEN [volume |-> 1, velocity |-> 0]
                   ELSE [volume |-> 2, velocity |-> -2]]
    /\ double_free = FALSE
    /\ status = "running"
    /\ lastOp = "MPMSolidBase(frames)"
    /\ returned = Void
    /\ step_method_ = "MPMSolidStepMethodUSL"

\* The state after MPMSolidBase(start_frame, end_frame, frame_rate, max_dt,
\* write_to_file, particles): setParticles(particles) on the empty
\* container, and nothing else.
InitParticles(ps) ==
    /\ supportRadius \in Radii
    /\ Dim \in Dims
    /\ caller = [p \in CallerIds |->
                   IF p = 1 THEN [volume |-> 1, velocity |-> 0]
                   ELSE [volume |-> 2, velocity |-> -2]]
    /\ particles_ = [i \in 1 .. Len(ps) |->
                       IF ps[i] = 0 THEN NULL ELSE Clone(ps[i])]
    /\ is_bc_particle_ = Filled(Len(ps), 0)
    /\ particle_initial_volume_ =
           [i \in 1 .. Len(ps) |->
               IF ps[i] = 0 THEN 0 ELSE Deref(Clone(ps[i])).volume]
    /\ particle_grid_weight_and_gradient_ =
           Filled(Len(ps), Filled(MaxNum(Dim, supportRadius), 0))
    /\ particle_grid_pair_num_ = Filled(Len(ps), 0)
    /\ double_free = FALSE
    /\ status = "running"
    /\ lastOp = "MPMSolidBase(frames, particles)"
    /\ returned = Void
    /\ step_method_ = NoStepMethod

Running == status = "running"

\* The process ends inside the call op, with exit status how ("exited" by
\* std::exit, "aborted" by a crash).  No object outlives the process: the
\* container's vectors are modelled empty from then on.
Terminate(how, op) ==
    /\ status' = how
    /\ lastOp' = op
    /\ returned' = Void
    /\ particles_' = <<>>
    /\ is_bc_particle_' = <<>>
    /\ particle_initial_volume_' = <<>>
    /\ particle_grid_weight_and_gradient_' = <<>>
    /\ particle_grid_pair_num_' = <<>>
    /\ UNCHANGED <<supportRadius, Dim, step_method_, caller, double_free>>

\* The process is killed inside the call op by undefined behaviour.
Abort(op) == Terminate("aborted", op)

\* ------------------------------------------------------------ operations
\* a variant that makes every slot afresh for the current kernel
appendSpaceResizesAll ==
    /\ particle_grid_weight_and_gradient_' =
           Filled(Len(particle_grid_weight_and_gradient_) + 1,
                  Filled(MaxNum(Dim, supportRadius), 0))
    /\ particle_grid_pair_num_' =
           Filled(Len(particle_grid_pair_num_) + 1, 0)

\* appendSpaceForWeightAndGradient(): one more slot of max_num entries
appendSpaceForWeightAndGradient ==
    /\ particle_grid_weight_and_gradient_' =
           Append(particle_grid_weight_and_gradient_,
                  Filled(MaxNum(Dim, supportRadius), 0))
    /\ particle_grid_pair_num_' = Append(particle_grid_pair_num_, 0)

\* a variant that sizes the cache but forgets the counters
allocateSpaceForgetsCounters(n) ==
    /\ particle_grid_weight_and_gradient_' =
           Resize(particle_grid_weight_and_gradient_, n,
                  Filled(MaxNum(Dim, supportRadius), 0))
    /\ particle_grid_pair_num_' = particle_grid_pair_num_

\* allocateSpaceForWeightAndGradient(), called with particles_ resized to n
allocateSpaceForWeightAndGradient(n) ==
    /\ particle_grid_weight_and_gradient_' =
           Resize(particle_grid_weight_and_gradient_, n,
                  Filled(MaxNum(Dim, supportRadius), 0))
    /\ particle_grid_pair_num_' = Resize(particle_grid_pair_num_, n, 0)

\* addParticle(particle): particle is the caller's particle p
addParticle(p) ==
    /\ Running
    /\ particleNum < MaxParticles
    /\ LET new_particle == Clone(p) IN
          /\ particles_' = Append(particles_, new_particle)
          /\ is_bc_particle_' = Append(is_bc_particle_, 0)
          /\ particle_initial_volume_' =
                 Append(particle_initial_volume_, Deref(new_particle).volume)
    /\ appendSpaceForWeightAndGradient
    /\ lastOp' = "addParticle"
    /\ returned' = Void
    /\ UNCHANGED <<supportRadius, Dim, step_method_, caller, double_free,
                   status>>

\* a variant that drops the last boundary flag instead of the particle's
removeParticleAtPopsFlag(particle_idx) ==
    LET df == DoubleFree(particles_[particle_idx + 1])
    IN  \/ /\ df
           /\ Abort("removeParticle")
        \/ /\ double_free' = (double_free \/ df)
           /\ particles_' = Erase(particles_, particle_idx)
           /\ particle_initial_volume_' =
                  Erase(particle_initial_volume_, particle_idx)
           /\ is_bc_particle_' =
                  Erase(is_bc_particle_, Len(is_bc_particle_) - 1)
           /\ particle_grid_weight_and_gradient_' =
                  Erase(particle_grid_weight_and_gradient_, particle_idx)
           /\ particle_grid_pair_num_' =
                  Erase(particle_grid_pair_num_, particle_idx)
           /\ lastOp' = "removeParticle"
           /\ returned' = Void
           /\ UNCHANGED <<supportRadius, Dim, step_method_, caller, status>>

\* removeParticle(particle_idx) past the range check
removeParticleAt(particle_idx) ==
    LET df == DoubleFree(particles_[particle_idx + 1])
    IN  \/ /\ df                          \* delete of a released object
           /\ Abort("removeParticle")
        \/ /\ double_free' = (double_free \/ df)
           /\ particles_' = Erase(particles_, particle_idx)
           /\ particle_initial_volume_' =
                  Erase(particle_initial_volume_, particle_idx)
           /\ is_bc_particle_' = Erase(is_bc_particle_, particle_idx)
           /\ particle_grid_weight_and_gradient_' =
                  Erase(particle_grid_weight_and_gradient_, particle_idx)
           /\ particle_grid_pair_num_' =
                  Erase(particle_grid_pair_num_, particle_idx)
           /\ lastOp' = "removeParticle"
           /\ returned' = Void
           /\ UNCHANGED <<supportRadius, Dim, step_method_, caller, status>>

\* a variant that clamps an out-of-range index to the last particle
removeParticleClamps(particle_idx) ==
    /\ Running
    /\ IF particle_idx >= Len(particles_)
       THEN IF Len(particles_) = 0
            THEN /\ lastOp' = "removeParticle ignored"
                 /\ returned' = Void
                 /\ UNCHANGED <<container, supportRadius, Dim, step_method_,
                                caller, double_free, status>>
            ELSE removeParticleAt(Len(particles_) - 1)
       ELSE removeParticleAt(particle_idx)

removeParticle(particle_idx) ==
    /\ Running
    /\ IF particle_idx >= Len(particles_)
       THEN /\ lastOp' = "removeParticle ignored"
            /\ returned' = Void
            /\ UNCHANGED <<container, supportRadius, Dim, step_method_,
                           caller, double_free, status>>
       ELSE removeParticleAt(particle_idx)

\* the argument vectors of setParticles: caller particles (by name) and
\* NULL entries (0)
ParticleVectors(callers) ==
    UNION {[1 .. k -> callers \cup {0}] : k \in 0 .. MaxParticles}

HasNull(ps) == \E i \in 1 .. Len(ps) : ps[i] = 0

SetParticlesName(ps) ==
    IF HasNull(ps) THEN "setParticles with NULL" ELSE "setParticles"

\* the release loop of setParticles: every non-null pointer is deleted and
\* stays in particles_
ReleaseAll(ptrs) == [i \in 1 .. Len(ptrs) |-> Deleted(ptrs[i])]

\* setParticles(particles)
setParticles(ps) ==
    /\ Running
    /\ LET df  == \E i \in 1 .. Len(particles_) : DoubleFree(particles_[i])
           old == ReleaseAll(particles_)
           n   == Len(ps)
       IN  \/ /\ df                       \* delete of a released object
              /\ Abort(SetParticlesName(ps))
           \/ /\ particles_' =
                     [i \in 1 .. n |-> IF ps[i] = 0
                                       THEN Resize(old, n, NULL)[i]
                                       ELSE Clone(ps[i])]
              /\ is_bc_particle_' =
                     [i \in 1 .. n |-> IF ps[i] = 0
                                       THEN Resize(is_bc_particle_, n, 0)[i]
                                       ELSE 0]
              /\ particle_initial_volume_' =
                     [i \in 1 .. n |->
                         IF ps[i] = 0
                         THEN Resize(particle_initial_volume_, n, 0)[i]
                         ELSE Deref(Clone(ps[i])).volume]
              /\ allocateSpaceForWeightAndGradient(n)
              /\ double_free' = (double_free \/ df)
              /\ lastOp' = SetParticlesName(ps)
              /\ returned' = Void
              /\ UNCHANGED <<supportRadius, Dim, step_method_, caller,
                             status>>

\* particle(particle_idx) const: the range check, then *particles_[idx].
\* Binding the reference reads no memory, so the call returns whatever the
\* slot holds.
particleConst(particle_idx) ==
    /\ Running
    /\ IF particle_idx >= Len(particles_)
       THEN Terminate("exited", "particle const")
       ELSE /\ lastOp' = "particle const"
            /\ returned' = Reference(particles_[particle_idx + 1])
            /\ UNCHANGED <<container, supportRadius, Dim, step_method_,
                           caller, double_free, status>>

\* particle(particle_idx), the mutable form
particle(particle_idx) ==
    /\ Running
    /\ IF particle_idx >= Len(particles_)
       THEN Terminate("exited", "particle")
       ELSE /\ lastOp' = "particle"
            /\ returned' = Reference(particles_[particle_idx + 1])
            /\ UNCHANGED <<container, supportRadius, Dim, step_method_,
                           caller, double_free, status>>

\* a variant that takes the written volume as the initial volume too
particleSetVolumeRecaptures(particle_idx, v) ==
    /\ Running
    /\ particle_idx < Len(particles_)
    /\ Live(particles_[particle_idx + 1])
    /\ particles_[particle_idx + 1].volume # v
    /\ particles_' = [particles_ EXCEPT ![particle_idx + 1].volume = v]
    /\ particle_initial_volume_' =
           [particle_initial_volume_ EXCEPT ![particle_idx + 1] = v]
    /\ lastOp' = "particle setVolume"
    /\ returned' = Void
    /\ UNCHANGED <<is_bc_particle_, particle_grid_weight_and_gradient_,
                   particle_grid_pair_num_, supportRadius, Dim, step_method_,
                   caller, double_free, status>>

\* particle(particle_idx).setVolume(v): a write through the reference the
\* mutable form returns
particleSetVolume(particle_idx, v) ==
    /\ Running
    /\ particle_idx < Len(particles_)
    /\ LET ptr == particles_[particle_idx + 1] IN
       IF Live(ptr)
       THEN /\ ptr.volume # v
            /\ particles_' =
                   [particles_ EXCEPT ![particle_idx + 1].volume = v]
            /\ lastOp' = "particle setVolume"
            /\ returned' = Void
            /\ UNCHANGED <<is_bc_particle_, particle_initial_volume_,
                           particle_grid_weight_and_gradient_,
                           particle_grid_pair_num_, supportRadius, Dim,
                           step_method_, caller, double_free, status>>
       ELSE \* a write through a null or dangling pointer
            \/ Abort("particle setVolume")
            \/ /\ lastOp' = "particle setVolume"
               /\ returned' = Void
               /\ UNCHANGED <<container, supportRadius, Dim, step_method_,
                              caller, double_free, status>>

\* addBCParticle(particle_idx) on the flag vector; n is particles_.size()
SetBC(flags, n, particle_idx) ==
    IF particle_idx >= n THEN flags
    ELSE [flags EXCEPT ![particle_idx + 1] = 1]

\* a variant whose loop stops at the first index out of range
RECURSIVE SetBCsStops(_, _, _, _)
SetBCsStops(flags, n, idxs, i) ==
    IF i < Len(idxs) /\ idxs[i + 1] < n
    THEN SetBCsStops(SetBC(flags, n, idxs[i + 1]), n, idxs, i + 1)
    ELSE flags

\* the loop of addBCParticles(particle_idx), from position i
RECURSIVE SetBCs(_, _, _, _)
SetBCs(flags, n, idxs, i) ==
    IF i < Len(idxs)
    THEN SetBCs(SetBC(flags, n, idxs[i + 1]), n, idxs, i + 1)
    ELSE flags

addBCParticle(particle_idx) ==
    /\ Running
    /\ is_bc_particle_' =
           SetBC(is_bc_particle_, Len(particles_), particle_idx)
    /\ lastOp' = IF particle_idx >= Len(particles_)
                 THEN "addBCParticle ignored" ELSE "addBCParticle"
    /\ returned' = Void
    /\ UNCHANGED <<particles_, particle_initial_volume_,
                   particle_grid_weight_and_gradient_,
                   particle_grid_pair_num_, supportRadius, Dim, step_method_,
                   caller, double_free, status>>

IndexVectors == UNION {[1 .. k -> Indices] : k \in 0 .. MaxBatch}

addBCParticles(idxs) ==
    /\ Running
    /\ is_bc_particle_' =
           SetBCs(is_bc_particle_, Len(particles_), idxs, 0)
    /\ lastOp' = "addBCParticles"
    /\ returned' = Void
    /\ UNCHANGED <<particles_, particle_initial_volume_,
                   particle_grid_weight_and_gradient_,
                   particle_grid_pair_num_, supportRadius, Dim, step_method_,
                   caller, double_free, status>>

\* Vector::normSquared() of a velocity; the model keeps one component of
\* the vector, the others are 0
NormSquared(velocity) == velocity * velocity

\* sqrt(x), for the x the model reaches (rounded down elsewhere)
Sqrt(x) == CHOOSE r \in 0 .. x : r * r <= x /\ (r + 1) * (r + 1) > x

\* std::numeric_limits<Scalar>::max(): above every squared norm
ScalarMax == 100

\* the squared norms a read through a null or released pointer can yield
StrayNormSqrs == {NormSquared(caller[p].velocity) : p \in CallerIds}

\* the loop of maxParticleVelocityNorm from position i; norm_sqrs[i + 1] is
\* what (particles_[i]->velocity()).normSquared() reads
RECURSIVE MinVelLoop(_, _, _)
MinVelLoop(norm_sqrs, i, min_vel) ==
    IF i < Len(norm_sqrs)
    THEN LET norm_sqr == norm_sqrs[i + 1] IN
         MinVelLoop(norm_sqrs, i + 1,
                    IF norm_sqr < min_vel THEN norm_sqr ELSE min_vel)
    ELSE min_vel

\* maxParticleVelocityNorm() const.  A read through a null or released
\* pointer is undefined: the process is killed, or the read yields a stray
\* value and the call goes on.
maxParticleVelocityNorm ==
    /\ Running
    /\ IF Len(particles_) = 0
       THEN /\ returned' = Scalar(0)
            /\ lastOp' = "maxParticleVelocityNorm"
            /\ UNCHANGED <<container, supportRadius, Dim, step_method_,
                           caller, double_free, status>>
       ELSE \/ /\ \E i \in 1 .. Len(particles_) : ~Live(particles_[i])
               /\ Abort("maxParticleVelocityNorm")
            \/ \E norm_sqrs \in [1 .. Len(particles_) -> StrayNormSqrs] :
                  /\ \A i \in 1 .. Len(particles_) :
                        Live(particles_[i]) =>
                           norm_sqrs[i]
                              = NormSquared(Deref(particles_[i]).velocity)
                  /\ returned' = Scalar(Sqrt(MinVelLoop(norm_sqrs, 0,
                                                       ScalarMax)))
                  /\ lastOp' = "maxParticleVelocityNorm"
                  /\ UNCHANGED <<container, supportRadius, Dim,
                                 step_method_, caller, double_free, status>>

\* ~MPMSolidBase()
Destructor ==
    /\ Running
    /\ LET df == \E i \in 1 .. Len(particles_) : DoubleFree(particles_[i])
       IN  \/ /\ df
              /\ Abort("~MPMSolidBase")
           \/ /\ particles_' = ReleaseAll(particles_)
              /\ double_free' = (double_free \/ df)
              /\ status' = "destroyed"
              /\ lastOp' = "~MPMSolidBase"
              /\ returned' = Void
              /\ UNCHANGED <<is_bc_particle_, particle_initial_volume_,
                             particle_grid_weight_and_gradient_,
                             particle_grid_pair_num_, supportRadius, Dim,
                             step_method_, caller>>

\* ----------------------------------------------------------- environment
\* The driver installs another kernel: supportRadius() answers r from now on.
setWeightFunction(r) ==
    /\ Running
    /\ r # supportRadius
    /\ supportRadius' = r
    /\ lastOp' = "setWeightFunction"
    /\ returned' = Void
    /\ UNCHANGED <<container, Dim, step_method_, caller, double_free, status>>

\* A step fills the cache: every particle gets one valid entry.
updateParticleInterpolationWeight ==
    /\ Running
    /\ particleNum > 0
    /\ particle_grid_weight_and_gradient_' =
           [i \in 1 .. Len(particle_grid_weight_and_gradient_) |->
               [particle_grid_weight_and_gradient_[i] EXCEPT ![1] = 1]]
    /\ particle_grid_pair_num_' =
           [i \in 1 .. Len(particle_grid_pair_num_) |-> 1]
    /\ lastOp' = "updateParticleInterpolationWeight"
    /\ returned' = Void
    /\ UNCHANGED <<particles_, is_bc_particle_, particle_initial_volume_,
                   supportRadius, Dim, step_method_, caller, double_free,
                   status>>

\* setStepMethod<T>(): the driver installs strategy m.
setStepMethod(m) ==
    /\ Running
    /\ step_method_' = m
    /\ lastOp' = "setStepMethod"
    /\ returned' = Void
    /\ UNCHANGED <<container, supportRadius, Dim, caller, double_free,
                   status>>

\* One sub-step: the driver calls step_method_->advanceStep().  Without a
\* strategy the call goes through a null pointer and kills the process;
\* with one, the step fills the cache: every particle gets one valid entry.
advanceStep ==
    /\ Running
    /\ IF step_method_ = NoStepMethod
       THEN Abort("advanceStep")
       ELSE /\ particle_grid_weight_and_gradient_' =
                   [i \in 1 .. Len(particle_grid_weight_and_gradient_) |->
                       [particle_grid_weight_and_gradient_[i]
                           EXCEPT ![1] = 1]]
            /\ particle_grid_pair_num_' =
                   [i \in 1 .. Len(particle_grid_pair_num_) |-> 1]
            /\ lastOp' = "advanceStep"
            /\ returned' = Void
            /\ UNCHANGED <<particles_, is_bc_particle_,
                           particle_initial_volume_, supportRadius, Dim,
                           step_method_, caller, double_free, status>>

\* The caller changes the volume of one of its own particles.
callerSetVolume(p, v) ==
    /\ Running
    /\ caller[p].volume # v
    /\ caller' = [caller EXCEPT ![p].volume = v]
    /\ lastOp' = "caller setVolume"
    /\ returned' = Void
    /\ UNCHANGED <<container, supportRadius, Dim, step_method_, double_free,
                   status>>

\* the operations every environment uses, on the caller's particles callers
Core(callers) ==
    \/ \E p \in callers : addParticle(p)
    \/ \E particle_idx \in Indices : removeParticle(particle_idx)
    \/ \E ps \in ParticleVectors(callers) : setParticles(ps)

Next ==
    \/ Core(CallerIds)
    \/ \E particle_idx \in Indices : particleConst(particle_idx)
    \/ \E particle_idx \in Indices : particle(particle_idx)
    \/ \E particle_idx \in Indices, v \in Volumes :
          particleSetVolume(particle_idx, v)
    \/ \E particle_idx \in Indices : addBCParticle(particle_idx)
    \/ \E idxs \in IndexVectors : addBCParticles(idxs)
    \/ maxParticleVelocityNorm
    \/ Destructor
    \/ \E r \in Radii : setWeightFunction(r)
    \/ updateParticleInterpolationWeight
    \/ \E p \in CallerIds, v \in Volumes : callerSetVolume(p, v)
    \/ \E m \in StepMethods : setStepMethod(m)
    \/ advanceStep

\* the state after any of the three constructors, on the caller's
\* particles callers
Constructed(callers) ==
    \/ Init
    \/ InitFrames
    \/ \E ps \in ParticleVectors(callers) : InitParticles(ps)

\* The whole program under every environment.
Spec == Constructed(CallerIds) /\ [][Next]_vars

\* One kernel for the whole run.
InitFixedKernel == Init /\ Dim = 2 /\ supportRadius = 1

\* Ownership: the caller and the container write to particles, and the
\* container is destroyed; one kernel, no boundary marks.
NextOwnership ==
    \/ Core(CallerIds)
    \/ \E particle_idx \in Indices : particleConst(particle_idx)
    \/ \E particle_idx \in Indices : particle(particle_idx)
    \/ \E particle_idx \in Indices, v \in Volumes :
          particleSetVolume(particle_idx, v)
    \/ Destructor
    \/ \E p \in CallerIds, v \in Volumes : callerSetVolume(p, v)

SpecOwnership == InitFixedKernel /\ [][NextOwnership]_vars

\* Records: boundary marks and cache updates under one kernel.
NextRecords ==
    \/ Core(CallerIds)
    \/ \E particle_idx \in Indices : particleConst(particle_idx)
    \/ \E particle_idx \in Indices : particle(particle_idx)
    \/ \E particle_idx \in Indices : addBCParticle(particle_idx)
    \/ \E idxs \in IndexVectors : addBCParticles(idxs)
    \/ updateParticleInterpolationWeight

SpecRecords == InitFixedKernel /\ [][NextRecords]_vars

\* Kernel: the driver changes the kernel between the container's calls; the
\* caller passes one particle.
NextKernel ==
    \/ Core({1})
    \/ \E r \in Radii : setWeightFunction(r)

SpecKernel == Init /\ [][NextKernel]_vars

\* Volumes: particles are written through the mutable particle() and marked
\* as boundary between the container's calls; one kernel.
NextVolumes ==
    \/ Core(CallerIds)
    \/ \E particle_idx \in Indices, v \in Volumes :
          particleSetVolume(particle_idx, v)
    \/ \E particle_idx \in Indices : addBCParticle(particle_idx)

SpecVolumes == InitFixedKernel /\ [][NextVolumes]_vars

\* Reads: particles are read through particle() and by
\* maxParticleVelocityNorm between the container's calls; one kernel.
NextReads ==
    \/ Core(CallerIds)
    \/ \E particle_idx \in Indices : particleConst(particle_idx)
    \/ \E particle_idx \in Indices : particle(particle_idx)
    \/ maxParticleVelocityNorm

SpecReads == InitFixedKernel /\ [][NextReads]_vars

\* Solver: a solver made by any constructor runs steps between the
\* container's calls, and the driver may install another strategy; one
\* kernel, and the caller passes one particle.
NextSolver ==
    \/ Core({1})
    \/ \E m \in StepMethods : setStepMethod(m)
    \/ advanceStep

InitSolver == Constructed({1}) /\ Dim = 2 /\ supportRadius = 1

SpecSolver == InitSolver /\ [][NextSolver]_vars

\* Append: a container that only grows; its records are marked and filled
\* by a step, under a kernel the driver changes.
NextAppend ==
    \/ \E p \in CallerIds : addParticle(p)
    \/ \E particle_idx \in Indices : addBCParticle(particle_idx)
    \/ updateParticleInterpolationWeight
    \/ \E r \in Radii : setWeightFunction(r)

SpecAppend == Init /\ [][NextAppend]_vars

\* ------------------------------------------------------------------ claims
\* C1: in every reachable state the sequences particles, isBoundary,
\* initialVolume, gridCache and the valid-entry counters have the same
\* length, which is count().
C1_ParallelLengths ==
    /\ Len(is_bc_particle_) = particleNum
    /\ Len(particle_initial_volume_) = particleNum
    /\ Len(particle_grid_weight_and_gradient_) = particleNum
    /\ Len(particle_grid_pair_num_) = particleNum

\* a replaceAll with a null entry has resized a container, and its slots
\* were made under different kernels
C1_Witness ==
    /\ lastOp = "setParticles with NULL"
    /\ particleNum = 2
    /\ Len(particle_grid_weight_and_gradient_[1])
          # Len(particle_grid_weight_and_gradient_[2])

\* C2: after replaceAll(ps), in whatever state it was called, count() is the
\* length of ps, every slot whose input was null is unset (NULL) and every
\* other slot holds a copy equal to its input.
C2_ReplaceAll ==
    [][\A ps \in ParticleVectors(CallerIds) :
          (setParticles(ps) /\ status' = "running") =>
             /\ Len(particles_') = Len(ps)
             /\ \A i \in 1 .. Len(ps) :
                   IF ps[i] = 0
                   THEN particles_'[i] = NULL
                   ELSE /\ particles_'[i].kind = "own"
                        /\ Deref(particles_'[i]) = caller[ps[i]]]_vars

\* (2r+1)^d for the dimensions d the program is built for
SlotSize(d, r) ==
    IF d = 2 THEN (2 * r + 1) * (2 * r + 1)
    ELSE (2 * r + 1) * (2 * r + 1) * (2 * r + 1)

\* C3: after replaceAll(ps) every cache slot has (2r+1)^Dim entries for the
\* kernel's current support radius r, and every valid-entry counter is 0.
C3_ReplaceAllSizesCache ==
    [][\A ps \in ParticleVectors({1}) :
          (setParticles(ps) /\ status' = "running") =>
             \A i \in 1 .. Len(ps) :
                /\ Len(particle_grid_weight_and_gradient_'[i])
                      = SlotSize(Dim, supportRadius)
                /\ particle_grid_pair_num_'[i] = 0]_vars

\* what erase at index idx (0-based) leaves of a sequence
Shifted(before, after, idx) ==
    /\ Len(after) = Len(before) - 1
    /\ \A j \in 1 .. Len(after) :
          after[j] = IF j <= idx THEN before[j] ELSE before[j + 1]

\* C4: removeAt(i) with i < count() decreases count() by 1 and keeps the
\* order of the others: at(j) is what was at j for j < i and what was at
\* j + 1 for j >= i.
C4_RemoveKeepsOrder ==
    [][\A idx \in Indices :
          (idx < particleNum /\ status' = "running" /\ removeParticle(idx))
             => Shifted(particles_, particles_', idx)]_vars

\* a particle was removed from three, and the two left differ
C4_Witness ==
    /\ lastOp = "removeParticle"
    /\ particleNum = 2
    /\ Live(particles_[1]) /\ Live(particles_[2])
    /\ particles_[1] # particles_[2]

\* C5: after removeAt(i) with a valid index every remaining particle keeps
\* its boundary flag, initial volume, cache slot and valid-entry counter,
\* and the removed particle's record is gone from each sequence.
C5_RemoveKeepsRecords ==
    [][\A idx \in Indices :
          (idx < particleNum /\ status' = "running" /\ removeParticle(idx))
             => /\ Shifted(is_bc_particle_, is_bc_particle_', idx)
                /\ Shifted(particle_initial_volume_,
                           particle_initial_volume_', idx)
                /\ Shifted(particle_grid_weight_and_gradient_,
                           particle_grid_weight_and_gradient_', idx)
                /\ Shifted(particle_grid_pair_num_,
                           particle_grid_pair_num_', idx)]_vars

\* a particle was removed, and the two left differ in flag and in counter
C5_Witness ==
    /\ lastOp = "removeParticle"
    /\ particleNum = 2
    /\ is_bc_particle_[1] # is_bc_particle_[2]
    /\ particle_grid_pair_num_[1] # particle_grid_pair_num_[2]
    /\ particle_grid_weight_and_gradient_[1]
          # particle_grid_weight_and_gradient_[2]
    /\ particle_initial_volume_[1] # particle_initial_volume_[2]

\* C6: after add(p), at(count()-1) equals p field by field, and it is the
\* container's own copy: the caller changing p later does not change it.
C6_AddStoresCopy ==
    [][/\ \A p \in CallerIds :
             addParticle(p) =>
                /\ Live(particles_'[particleNum + 1])
                /\ Deref(particles_'[particleNum + 1]) = caller[p]
       /\ \A p \in CallerIds, v \in Volumes :
             callerSetVolume(p, v) =>
                \A i \in 1 .. particleNum :
                   Live(particles_[i]) =>
                      Deref(particles_[i])' = Deref(particles_[i])]_vars

\* the caller has changed particle 1 after the container cloned it
C6_Witness ==
    /\ lastOp = "caller setVolume"
    /\ caller[1].volume = 2
    /\ particleNum > 0
    /\ particles_[particleNum] = Ptr("own", 0, 1, 0)

\* C7: removeAt(index) with index >= count() changes nothing: not count(),
\* the particles, the flags, the volumes, the cache or the counters; it
\* releases no particle and the process goes on.
C7_RemoveOutOfRange ==
    [][\A idx \in Indices :
          (idx >= particleNum /\ removeParticle(idx))
             => /\ UNCHANGED <<container, caller, double_free>>
                /\ status' = "running"]_vars

\* an out-of-range removal was ignored on a container with marked and
\* counted records
C7_Witness ==
    /\ lastOp = "removeParticle ignored"
    /\ status = "running"
    /\ particleNum = 2
    /\ is_bc_particle_[1] = 1
    /\ particle_grid_pair_num_[2] = 1

\* C8: at(index) with index >= count() terminates the process, in both
\* forms; removeAt and markBoundary with an invalid index and replaceAll
\* with null entries never terminate it.
C8_FatalAndRecoverable ==
    [][/\ \A idx \in Indices :
             ((particleConst(idx) \/ particle(idx)) /\ idx >= particleNum)
                => status' = "exited"
       /\ lastOp' \in {"removeParticle ignored", "addBCParticle ignored",
                       "setParticles with NULL"}
             => status' = "running"]_vars

\* C9: add(p) appends one record: flag false, initial volume p's volume,
\* counter 0, and a cache slot of (2r+1)^Dim entries for the kernel's
\* current support radius r.
C9_AddAppendsRecord ==
    [][\A p \in CallerIds :
          addParticle(p) =>
             LET n == particleNum + 1 IN
             /\ Len(particles_') = n
             /\ Len(is_bc_particle_') = n
             /\ Len(particle_initial_volume_') = n
             /\ Len(particle_grid_weight_and_gradient_') = n
             /\ Len(particle_grid_pair_num_') = n
             /\ is_bc_particle_'[n] = 0
             /\ particle_initial_volume_'[n] = caller[p].volume
             /\ particle_grid_pair_num_'[n] = 0
             /\ Len(particle_grid_weight_and_gradient_'[n])
                   = SlotSize(Dim, supportRadius)]_vars

\* a particle was added in three dimensions under radius 3, next to a slot
\* made under radius 1
C9_Witness ==
    /\ lastOp = "addParticle"
    /\ Dim = 3
    /\ supportRadius = 3
    /\ particleNum = 2
    /\ Len(particle_grid_weight_and_gradient_[1]) = 27
    /\ Len(particle_grid_weight_and_gradient_[2]) = 343

\* C10: from flags all false, markBoundary(i) then markBoundaries(idxs)
\* leaves true exactly the valid indices among i and idxs; the same calls
\* again change nothing; an index >= count() in idxs is skipped and the
\* valid ones after it are marked.
C10_MarkBoundaries ==
    (\A j \in 1 .. Len(is_bc_particle_) : is_bc_particle_[j] = 0) =>
       \A i \in Indices, idxs \in IndexVectors :
          LET n      == particleNum
              once   == SetBCs(SetBC(is_bc_particle_, n, i), n, idxs, 0)
              twice  == SetBCs(SetBC(once, n, i), n, idxs, 0)
              marked == {i} \cup {idxs[k] : k \in 1 .. Len(idxs)}
          IN  /\ once = [j \in 1 .. n |-> IF (j - 1) \in marked THEN 1 ELSE 0]
              /\ twice = once

\* a batch has marked particles 0 and 2 of three and left particle 1
C10_Witness ==
    /\ lastOp = "addBCParticles"
    /\ particleNum = 3
    /\ is_bc_particle_ = <<1, 0, 1>>

\* C11: the initial volume of a particle is its volume when add or
\* replaceAll inserted it, and it is never recomputed: writing the particle's
\* volume through the mutable at(), markBoundary, add of other particles and
\* removeAt of other particles leave the initial volume of every particle
\* that stays in the container as it was.
C11_InitialVolumeKept ==
    [][/\ \A p \in CallerIds :
             addParticle(p) =>
                /\ particle_initial_volume_'[particleNum + 1]
                      = caller[p].volume
                /\ SubSeq(particle_initial_volume_', 1, particleNum)
                      = particle_initial_volume_
       /\ \A ps \in ParticleVectors(CallerIds) :
             (status' = "running" /\ setParticles(ps)) =>
                \A i \in 1 .. Len(ps) :
                   ps[i] # 0 =>
                      particle_initial_volume_'[i] = caller[ps[i]].volume
       /\ \A idx \in Indices, v \in Volumes :
             (idx < particleNum /\ status' = "running"
                 /\ particleSetVolume(idx, v))
                => particle_initial_volume_' = particle_initial_volume_
       /\ \A idx \in Indices :
             addBCParticle(idx)
                => particle_initial_volume_' = particle_initial_volume_
       /\ \A idx \in Indices :
             (idx < particleNum /\ status' = "running"
                 /\ removeParticle(idx))
                => Shifted(particle_initial_volume_,
                           particle_initial_volume_', idx)]_vars

\* the volume of a marked particle was written after its insertion, and
\* its initial volume is still the volume it was inserted with
C11_Witness ==
    /\ lastOp = "particle setVolume"
    /\ particleNum = 2
    /\ is_bc_particle_[1] = 1
    /\ particles_[1] = Ptr("own", 0, 2, 0)
    /\ particle_initial_volume_[1] = 1

\* the norm of a velocity
Norm(velocity) == Sqrt(NormSquared(velocity))

\* the squared velocity norms of the particles in the container
NormSqrs ==
    {NormSquared(Deref(particles_[i]).velocity) :
        i \in {j \in 1 .. particleNum : Live(particles_[j])}}

\* C12: maxSpeed() returns 0 for an empty container; for a non-empty one
\* it returns the square root of the minimum squared velocity norm over all
\* particles (its square is that minimum), and for a container holding a
\* single particle with velocity norm v it returns v.
C12_MaxSpeed ==
    [][maxParticleVelocityNorm =>
          /\ status' = "running"
          /\ returned'.kind = "scalar"
          /\ IF particleNum = 0
             THEN returned'.value = 0
             ELSE /\ returned'.value * returned'.value \in NormSqrs
                  /\ \A norm_sqr \in NormSqrs :
                        returned'.value * returned'.value <= norm_sqr
                  /\ (particleNum = 1 /\ Live(particles_[1])) =>
                        returned'.value
                           = Norm(Deref(particles_[1]).velocity)]_vars

\* C13: every owned particle is released exactly once: whatever add,
\* removeAt and replaceAll calls were made (null entries included) before
\* the container is destroyed, no particle is released twice, no slot holds
\* a reference to a released particle, and after destruction every clone
\* the container made has been released.
C13_ReleasedOnce ==
    /\ ~double_free
    /\ status # "aborted"
    /\ status = "running" =>
          \A i \in 1 .. particleNum : particles_[i] # Dangling
    /\ status = "destroyed" =>
          \A i \in 1 .. particleNum : ~Live(particles_[i])

\* C14: no invalid read continues silently: at(index), in either form,
\* terminates the process or returns a reference to a live particle the
\* container owns, never one to an unset slot or to a released particle;
\* and maxSpeed() never reads an unset slot.
C14_NoInvalidRead ==
    [][/\ \A idx \in Indices :
             (particleConst(idx) \/ particle(idx)) =>
                \/ status' = "exited"
                \/ /\ returned'.kind = "reference"
                   /\ returned'.to.kind = "own"
       /\ maxParticleVelocityNorm =>
             \A i \in 1 .. particleNum : particles_[i] # NULL]_vars

\* C15: maxParticleVelocityNorm returns the maximum particle speed: on a
\* non-empty container (here: one whose slots all hold live particles) the
\* result is at least the velocity norm of every particle and is the
\* velocity norm of one of them.
C15_MaxSpeedIsMaximum ==
    [][(/\ particleNum > 0
        /\ \A i \in 1 .. particleNum : Live(particles_[i])
        /\ maxParticleVelocityNorm)
          => /\ returned'.kind = "scalar"
             /\ \A i \in 1 .. particleNum :
                   returned'.value >= Norm(Deref(particles_[i]).velocity)
             /\ \E i \in 1 .. particleNum :
                   returned'.value = Norm(Deref(particles_[i]).velocity)]_vars

\* the names of the three constructors
Constructors ==
    {"MPMSolidBase", "MPMSolidBase(frames)",
     "MPMSolidBase(frames, particles)"}

\* C16: after any of the three constructors the USL step method is the
\* installed step method; the installed step method changes only when it
\* is explicitly reassigned; and a step is always delegated to an installed
\* strategy.
C16_StepMethodInstalled ==
    [][/\ lastOp \in Constructors =>
             step_method_ = "MPMSolidStepMethodUSL"
       /\ step_method_' # step_method_ =>
             \E m \in StepMethods : setStepMethod(m)
       /\ advanceStep => step_method_ \in StepMethods]_vars

\* C17: add(p) changes nothing about the records already in the
\* container: for every index j below the old count() the particle, the
\* boundary flag, the initial volume, the cache slot (size and contents)
\* and the valid-entry counter at j are after add what they were before,
\* also when the kernel's support radius has changed since the slots were
\* made.
C17_AddKeepsOldRecords ==
    [][\A p \in CallerIds :
          addParticle(p) =>
             \A j \in 1 .. particleNum :
                /\ particles_'[j] = particles_[j]
                /\ is_bc_particle_'[j] = is_bc_particle_[j]
                /\ particle_initial_volume_'[j] = particle_initial_volume_[j]
                /\ particle_grid_weight_and_gradient_'[j]
                      = particle_grid_weight_and_gradient_[j]
                /\ particle_grid_pair_num_'[j]
                      = particle_grid_pair_num_[j]]_vars

\* a particle was added next to a marked record whose slot was made under
\* another radius and filled by a step
C17_Witness ==
    /\ lastOp = "addParticle"
    /\ particleNum = 2
    /\ is_bc_particle_[1] = 1
    /\ particle_grid_pair_num_[1] = 1
    /\ particle_grid_weight_and_gradient_[1][1] = 1
    /\ Len(particle_grid_weight_and_gradient_[1])
          # SlotSize(Dim, supportRadius)
    /\ Len(particle_grid_weight_and_gradient_[2])
          = SlotSize(Dim, supportRadius)

====
